---- MODULE Spec2Model ----
(***************************************************************************)
(* Model of the archiver: Service.get_directory (root lookup and           *)
(* _build_tree), walk_tree and the archive_file callback of main.py.       *)
(*                                                                         *)
(* One run of main.py is one behaviour: get_directory receives the listing *)
(* and the root name, builds the tree (or exits, or overflows the call     *)
(* stack), then walk_tree drives archive_file over the tree one callback   *)
(* at a time.                                                              *)
(***************************************************************************)
EXTENDS Integers, Sequences, FiniteSets, TLC

\* ---- bounds of the model ----
\* Largest number of records the storage listing returns.
MaxFiles == 3

\* Record ids.  The code only compares ids for equality, so the i-th record of
\* a listing carries id i; a parent id beyond the listing's length is a parent
\* the listing does not contain.
Ids == 1..MaxFiles

\* File names the listing and the root name are drawn from.
Names == {"", "a"}

\* Depth at which the interpreter refuses another nested _helper call.  An
\* acyclic listing nests at most MaxFiles deep, so only a cyclic one gets here.
RecursionLimit == MaxFiles + 2

\* ---- gdrive.py: MimeType ----
Folder == "Folder"
Document == "Document"
OtherFile == "OtherFile"
MimeType == {Folder, Document, OtherFile}

\* Raw provider tags a record can carry (the two the code recognises and one
\* it does not).
FolderTag == "application/vnd.google-apps.folder"
DocumentTag == "application/vnd.google-apps.document"
ShortcutTag == "application/vnd.google-apps.shortcut"
RawTags == {FolderTag, DocumentTag, ShortcutTag}

\* What one entry of the API response carries besides its id.
ApiEntry == [name : Names, mime_type : RawTags, parents : SUBSET Ids]

\* gdrive.py: _GoogleApiFile, as get_directory lines 66-71 build it from the
\* i-th entry.  parents is only ever tested with `in`, so it is kept as the
\* set of its elements.
_GoogleApiFile(i, entry) ==
  [id |-> i, name |-> entry.name, mime_type |-> entry.mime_type, parents |-> entry.parents]

\* main.py: DOC_EXPORT_MIME_TYPE_EXTS (the extensions, in export order).
DOC_EXPORT_MIME_TYPE_EXTS == <<"txt", "rtf", "pdf">>

\* ---- pure functions of gdrive.py ----
\* Variant of _parse_mime_type: an unrecognised tag is taken for a folder.
_parse_mime_type_DefaultFolder(mime_type) ==
  IF mime_type = DocumentTag THEN Document ELSE Folder

\* gdrive.py: _parse_mime_type
_parse_mime_type(mime_type) ==
  IF mime_type = FolderTag THEN Folder
  ELSE IF mime_type = DocumentTag THEN Document
  ELSE OtherFile

\* gdrive.py: GoogleDriveFile
GoogleDriveFile(id, name, mime, path, children) ==
  [id |-> id, name |-> name, mime |-> mime, path |-> path, children |-> children]

\* Variant of SkipsKind: the `continue` of line 133 is missing.
SkipsKind_Nothing(mime_type) == FALSE

\* _helper line 132: the kinds the scan skips.
SkipsKind(mime_type) == mime_type = OtherFile

\* Variant of RecursesInto: the scan recurses into every kind it keeps.
RecursesInto_Any(mime_type) == TRUE

\* _helper line 136: the kinds the scan recurses into.
RecursesInto(mime_type) == mime_type = Folder

\* Variant of ChildPath: the path of the ancestors is dropped.
ChildPath_DropsAncestors(path, name) == name

\* _helper line 138: the path handed to the recursive call.
ChildPath(path, name) == path \o "/" \o name

\* Variant of ChildParent: the recursive call scans for the same parent again.
ChildParent_Same(parent, file) == parent

\* _helper line 138: the parent handed to the recursive call.
ChildParent(parent, file) == file.id

\* Variant of ListedUnder: a record without parents counts as listed everywhere.
ListedUnder_Orphans(parent, file) == file.parents \subseteq {parent}

\* _helper line 130: the record is listed under this parent.
ListedUnder(parent, file) == parent \in file.parents

\* Variant of AppendFile: the node is put in front.
AppendFile_Front(out_files, node) == <<node>> \o out_files

\* _helper line 139: out_files.append
AppendFile(out_files, node) == Append(out_files, node)

\* _build_tree._helper.  The result is [ok, val]: ok is FALSE when the nesting
\* reached RecursionLimit (RecursionError, which unwinds every enclosing call),
\* otherwise val is the list of nodes.
RECURSIVE _helper(_, _, _, _)
_helper(files, path, parent, depth) ==
  LET RECURSIVE Scan(_, _)
      Scan(i, out_files) ==
        IF i > Len(files) THEN [ok |-> TRUE, val |-> out_files]
        ELSE LET file == files[i]
                 mime_type == _parse_mime_type(file.mime_type)
             IN  IF ~ListedUnder(parent, file) THEN Scan(i + 1, out_files)
                 ELSE IF SkipsKind(mime_type) THEN Scan(i + 1, out_files)
                 ELSE LET children ==
                            IF RecursesInto(mime_type)
                            THEN _helper(files, ChildPath(path, file.name),
                                         ChildParent(parent, file), depth + 1)
                            ELSE [ok |-> TRUE, val |-> <<>>]
                      IN  IF ~children.ok THEN [ok |-> FALSE, val |-> <<>>]
                          ELSE Scan(i + 1,
                                    AppendFile(out_files,
                                               GoogleDriveFile(file.id, file.name, mime_type,
                                                               path, children.val)))
  IN  IF depth >= RecursionLimit THEN [ok |-> FALSE, val |-> <<>>]
      ELSE Scan(1, <<>>)

\* _build_tree: the root node is built from the matched record, kind forced
\* to Folder, path "".
_build_tree(files, root) ==
  LET children == _helper(files, root.name, root.id, 1)
  IN  [ok |-> children.ok,
       val |-> GoogleDriveFile(root.id, root.name, Folder, "", children.val)]

\* Variant of FindRoot: without a match the first record is taken.
FindRoot_DefaultFirst(files, root_name) ==
  IF \E i \in DOMAIN files : files[i].name = root_name
  THEN CHOOSE i \in DOMAIN files :
         /\ files[i].name = root_name
         /\ \A j \in DOMAIN files : files[j].name = root_name => i <= j
  ELSE IF files # <<>> THEN 1 ELSE 0

\* get_directory line 76: index of the first record named root_name, 0 for None.
FindRoot(files, root_name) ==
  IF \E i \in DOMAIN files : files[i].name = root_name
  THEN CHOOSE i \in DOMAIN files :
         /\ files[i].name = root_name
         /\ \A j \in DOMAIN files : files[j].name = root_name => i <= j
  ELSE 0

\* ---- trees: a node is addressed by its position, the sequence of child
\* indexes leading to it from the root ----
RECURSIVE NodeAt(_, _)
NodeAt(node, pos) ==
  IF pos = <<>> THEN node ELSE NodeAt(node.children[Head(pos)], Tail(pos))

RECURSIVE Positions(_)
Positions(node) ==
  {<<>>} \cup UNION { { <<k>> \o p : p \in Positions(node.children[k]) } :
                      k \in DOMAIN node.children }

\* ---- state ----
VARIABLES
  pc,        \* where main.py is: "start", "walk", "done", "exit", "RecursionError", "failed"
  files,     \* get_directory: the records listed
  root_name, \* get_directory: its argument
  tree,      \* main.py: root, a sequence holding the tree once it is returned
  stack,     \* walk_tree: the active calls, outermost first
  visited,   \* positions the callback was invoked on, in order
  written,   \* archive_file: files written, in order
  stdout,    \* lines printed
  error,     \* the position whose callback raised, in a sequence; <<>> while none has
  exit_code  \* process exit status, -1 while running

vars == <<pc, files, root_name, tree, stack, visited, written, stdout, error, exit_code>>

Init ==
  /\ pc = "start"
  /\ files = <<>>
  /\ root_name = ""
  /\ tree = <<>>
  /\ stack = <<>>
  /\ visited = <<>>
  /\ written = <<>>
  /\ stdout = <<>>
  /\ error = <<>>
  /\ exit_code = -1

\* walk_tree: a call frame.  called says whether callback(root) has run, i is
\* the index of the next child of the for loop.
Frame(pos) == [node |-> pos, called |-> FALSE, i |-> 1]

\* Service.get_directory(rn) as called by main.py, response being the
\* entries the listing loop (lines 60-74) collects.
get_directory(response, rn) ==
  /\ files' = [i \in DOMAIN response |-> _GoogleApiFile(i, response[i])]
  /\ root_name' = rn
  /\ LET fs == files'
         r == FindRoot(fs, rn) IN
       IF r = 0
       THEN /\ stdout' = Append(stdout, "Couldn't find root directory: " \o rn)
            /\ exit_code' = 1
            /\ pc' = "exit"
            /\ UNCHANGED <<tree, stack>>
       ELSE LET built == _build_tree(fs, fs[r]) IN
              IF built.ok
              THEN /\ tree' = <<built.val>>
                   /\ stack' = <<Frame(<<>>)>>
                   /\ pc' = "walk"
                   /\ UNCHANGED <<stdout, exit_code>>
              ELSE /\ pc' = "RecursionError"
                   /\ exit_code' = 1
                   /\ UNCHANGED <<tree, stack, stdout>>
  /\ UNCHANGED <<visited, written, error>>

\* main.py line 60, over every listing and root name within the bounds
\* (main.py passes one fixed name; get_directory takes any).
GetDirectory ==
  /\ pc = "start"
  /\ \E n \in 0..MaxFiles : \E response \in [1..n -> ApiEntry], rn \in Names :
       get_directory(response, rn)

Top == stack[Len(stack)]

\* archive_file: the files one document is exported to.
ExportNames(file) ==
  [k \in DOMAIN DOC_EXPORT_MIME_TYPE_EXTS |->
     file.path \o "/" \o file.name \o "/" \o file.name \o "." \o DOC_EXPORT_MIME_TYPE_EXTS[k]]

\* walk_tree line 97 where callback returns: archive_file ignores a node that
\* is no Document and writes every export of one that is.
CallbackReturns ==
  /\ pc = "walk"
  /\ stack # <<>>
  /\ ~Top.called
  /\ LET file == NodeAt(tree[1], Top.node) IN
       /\ visited' = Append(visited, Top.node)
       /\ written' = IF file.mime # Document THEN written
                     ELSE written \o ExportNames(file)
  /\ stack' = [stack EXCEPT ![Len(stack)].called = TRUE]
  /\ UNCHANGED <<pc, files, root_name, tree, stdout, error, exit_code>>

\* Variant of Propagate: the exception is swallowed and the walk goes on.
Propagate_Swallowed(st) == [st EXCEPT ![Len(st)].called = TRUE]

\* What walk_tree does with an exception of the callback: nothing, so every
\* active call is unwound and main.py dies with it.
Propagate(st) == <<>>

\* Variant of Return: returning from a child returns from every caller too.
Return_All(st) == <<>>

\* walk_tree: the call returns to its caller's for loop.
Return(st) == SubSeq(st, 1, Len(st) - 1)

\* walk_tree line 97 where callback raises: the k-th export of a Document
\* fails (export_file or write_bytes), after the exports before it were written.
CallbackRaises(k) ==
  /\ pc = "walk"
  /\ stack # <<>>
  /\ ~Top.called
  /\ LET file == NodeAt(tree[1], Top.node) IN
       /\ file.mime = Document
       /\ visited' = Append(visited, Top.node)
       /\ written' = written \o SubSeq(ExportNames(file), 1, k - 1)
  /\ error' = <<Top.node>>
  /\ stack' = Propagate(stack)
  /\ IF stack' = <<>>
     THEN pc' = "failed" /\ exit_code' = 1
     ELSE UNCHANGED <<pc, exit_code>>
  /\ UNCHANGED <<files, root_name, tree, stdout>>

\* walk_tree lines 98-99: the for loop takes its next child and calls walk_tree.
WalkChild ==
  /\ pc = "walk"
  /\ stack # <<>>
  /\ Top.called
  /\ Top.i <= Len(NodeAt(tree[1], Top.node).children)
  /\ stack' = Append([stack EXCEPT ![Len(stack)].i = Top.i + 1],
                     Frame(Append(Top.node, Top.i)))
  /\ UNCHANGED <<pc, files, root_name, tree, visited, written, stdout, error, exit_code>>

\* walk_tree: the for loop is exhausted and the call returns; the outermost
\* return ends main.py.
WalkReturn ==
  /\ pc = "walk"
  /\ stack # <<>>
  /\ Top.called
  /\ Top.i > Len(NodeAt(tree[1], Top.node).children)
  /\ stack' = Return(stack)
  /\ IF stack' = <<>>
     THEN pc' = "done" /\ exit_code' = 0
     ELSE UNCHANGED <<pc, exit_code>>
  /\ UNCHANGED <<files, root_name, tree, visited, written, stdout, error>>

Next ==
  \/ GetDirectory
  \/ CallbackReturns
  \/ \E k \in DOMAIN DOC_EXPORT_MIME_TYPE_EXTS : CallbackRaises(k)
  \/ WalkChild
  \/ WalkReturn

Spec == Init /\ [][Next]_vars

\* ---- vocabulary of the properties ----
TreeReturned == tree # <<>>

\* The tree get_directory returned (only used where TreeReturned holds).
Root == tree[1]

AllPositions == Positions(Root)

Parent(pos) == SubSeq(pos, 1, Len(pos) - 1)

\* Positions holding the record with this id.
Occurrences(id) == { p \in AllPositions : NodeAt(Root, p).id = id }

\* A raw tag that maps to neither Folder nor Document.
Unrecognised(tag) == tag \notin {FolderTag, DocumentTag}

\* The record get_directory selects as root: the first one named root_name.
NameMatches == { i \in DOMAIN files : files[i].name = root_name }
RootIndex == CHOOSE i \in NameMatches : \A j \in NameMatches : i <= j

\* i is listed as a child of j, and the ancestors of a record in the listing.
IsChildOf(i, j) == files[j].id \in files[i].parents
RECURSIVE AncestorsWithin(_, _)
AncestorsWithin(i, n) ==
  IF n = 0 THEN {}
  ELSE LET ps == { j \in DOMAIN files : IsChildOf(i, j) }
       IN  ps \cup UNION { AncestorsWithin(j, n - 1) : j \in ps }
Acyclic == \A i \in DOMAIN files : i \notin AncestorsWithin(i, Len(files))

\* Pre-order on positions: a node before its descendants, a child's subtree
\* before the next child's.
Before(p, q) ==
  /\ p # q
  /\ \/ /\ Len(p) < Len(q)
        /\ SubSeq(q, 1, Len(p)) = p
     \/ \E k \in 1..Len(p) :
          /\ k <= Len(q)
          /\ SubSeq(p, 1, k - 1) = SubSeq(q, 1, k - 1)
          /\ p[k] < q[k]

InPreOrder(seq) == \A i, j \in DOMAIN seq : i < j => Before(seq[i], seq[j])

\* ids of a sequence of nodes or records
IdsOf(seq) == [k \in DOMAIN seq |-> seq[k].id]

\* ---- C1 ----
\* C1: every node of a returned tree, the root included, has kind Folder or
\* Document, whatever raw tags the records carry.
C1_NoOtherKind ==
  TreeReturned => \A p \in AllPositions : NodeAt(Root, p).mime \in {Folder, Document}

\* A tree was returned although a record with an unrecognised tag is listed
\* under one of its folders, and the root record itself has such a tag.
C1_Witness ==
  /\ TreeReturned
  /\ Acyclic
  /\ Unrecognised(files[RootIndex].mime_type)
  /\ \E i \in DOMAIN files, p \in AllPositions :
       /\ i # RootIndex
       /\ Unrecognised(files[i].mime_type)
       /\ NodeAt(Root, p).mime = Folder
       /\ NodeAt(Root, p).id \in files[i].parents

\* ---- C2 ----
\* C2 as stated (tried on the listings without a cycle): a record whose tag
\* maps to neither Folder nor Document is no node of the tree, and neither is
\* a record whose only parent it is.
C2_Original ==
  (TreeReturned /\ Acyclic) =>
    \A i \in DOMAIN files :
      Unrecognised(files[i].mime_type) =>
        /\ Occurrences(files[i].id) = {}
        /\ \A j \in DOMAIN files :
             files[j].parents = {files[i].id} => Occurrences(files[j].id) = {}

\* C2 amended: a record with an unrecognised tag that is not the record
\* selected as root is no node of the tree, and a record whose only parent it
\* is occurs nowhere below the root.
C2_PrunedBelowRoot ==
  TreeReturned =>
    \A i \in DOMAIN files :
      (Unrecognised(files[i].mime_type) /\ i # RootIndex) =>
        /\ Occurrences(files[i].id) = {}
        /\ \A j \in DOMAIN files :
             files[j].parents = {files[i].id} => Occurrences(files[j].id) \subseteq {<<>>}

\* An unrecognised record listed directly under the root, with a recognised
\* record of its own below it, was pruned.
C2_Witness ==
  /\ TreeReturned
  /\ Acyclic
  /\ \E i, j \in DOMAIN files :
       /\ i # RootIndex /\ j # RootIndex /\ i # j
       /\ Unrecognised(files[i].mime_type)
       /\ Root.id \in files[i].parents
       /\ ~Unrecognised(files[j].mime_type)
       /\ files[j].parents = {files[i].id}

\* ---- C3 ----
\* C3 as stated (tried on the listings without a cycle): the root has path ""
\* and a node c with parent p has path p.name when p.path is empty,
\* p.path + "/" + p.name otherwise.
C3_Original ==
  (TreeReturned /\ Acyclic) =>
    /\ Root.path = ""
    /\ \A c \in AllPositions \ {<<>>} :
         LET p == NodeAt(Root, Parent(c)) IN
           NodeAt(Root, c).path = IF p.path = "" THEN p.name
                                  ELSE p.path \o "/" \o p.name

\* C3 amended: the root has path "", a child of the root has the root's name
\* as path, and every deeper node c with parent p has p.path + "/" + p.name.
C3_PathOfParent ==
  TreeReturned =>
    /\ Root.path = ""
    /\ \A c \in AllPositions \ {<<>>} :
         LET p == NodeAt(Root, Parent(c)) IN
           NodeAt(Root, c).path = IF Parent(c) = <<>> THEN p.name
                                  ELSE p.path \o "/" \o p.name

\* A record attached under two parents at different depths, below a root
\* whose name is not empty.
C3_Witness ==
  /\ TreeReturned
  /\ Acyclic
  /\ Root.name # ""
  /\ \E c, d \in AllPositions :
       /\ Len(c) = 1 /\ Len(d) = 2
       /\ NodeAt(Root, c).id = NodeAt(Root, d).id

\* ---- C4 ----
\* C4: a walk that completes has invoked the callback exactly once per node,
\* and at every moment the invocations so far are in pre-order: a node before
\* its descendants, the whole subtree of a child before its next sibling.
C4_PreOrderOnce ==
  /\ InPreOrder(visited)
  /\ pc = "done" =>
       /\ { visited[k] : k \in DOMAIN visited } = AllPositions
       /\ Len(visited) = Cardinality(AllPositions)

\* A completed walk of a tree in which the first child of the root has a
\* child of its own and a next sibling.
C4_Witness ==
  /\ pc = "done"
  /\ Acyclic
  /\ {<<1, 1>>, <<2>>} \subseteq AllPositions

\* ---- C5 ----
\* C5: when no record is named root_name, get_directory prints the name and
\* exits with status 1; no tree is built or returned and the callback never
\* runs.
C5_RootNotFound ==
  (pc # "start" /\ NameMatches = {}) =>
    /\ pc = "exit"
    /\ exit_code = 1
    /\ stdout = <<"Couldn't find root directory: " \o root_name>>
    /\ tree = <<>>
    /\ stack = <<>>
    /\ visited = <<>>
    /\ written = <<>>

\* get_directory ran on a listing of MaxFiles records none of which has the
\* root name.
C5_Witness ==
  /\ pc = "exit"
  /\ Len(files) = MaxFiles
  /\ NameMatches = {}

\* ---- C6 ----
\* C6 as stated (tried on the listings without a cycle): each record id
\* occurs at no more than one node of the tree.
C6_Original ==
  (TreeReturned /\ Acyclic) =>
    \A i \in DOMAIN files : Cardinality(Occurrences(files[i].id)) <= 1

\* C6 amended: when every record has at most one parent id and no record is
\* its own ancestor, each record id occurs at no more than one node.
C6_SingleParentOnce ==
  (/\ TreeReturned
   /\ Acyclic
   /\ \A i \in DOMAIN files : Cardinality(files[i].parents) <= 1) =>
    \A i \in DOMAIN files : Cardinality(Occurrences(files[i].id)) <= 1

\* A tree of MaxFiles nodes from an acyclic listing of single-parent records.
C6_Witness ==
  /\ TreeReturned
  /\ Acyclic
  /\ \A i \in DOMAIN files : Cardinality(files[i].parents) <= 1
  /\ Cardinality(AllPositions) = MaxFiles
  /\ MaxFiles >= 2

\* ---- C7 ----
\* C7: a node with children is a Folder, a Document node has no children even
\* when records list its id as a parent, and the root is a Folder whatever
\* its record's tag.
C7_OnlyFoldersHaveChildren ==
  TreeReturned =>
    /\ Root.mime = Folder
    /\ \A p \in AllPositions :
         LET n == NodeAt(Root, p) IN
           /\ n.children # <<>> => n.mime = Folder
           /\ n.mime = Document => n.children = <<>>

\* A Document node that a recognised record lists as its parent, under a root
\* whose record is tagged as a document.
C7_Witness ==
  /\ TreeReturned
  /\ Acyclic
  /\ files[RootIndex].mime_type = DocumentTag
  /\ \E p \in AllPositions, i \in DOMAIN files :
       /\ NodeAt(Root, p).mime = Document
       /\ ~Unrecognised(files[i].mime_type)
       /\ NodeAt(Root, p).id \in files[i].parents

\* ---- C8 ----
\* Calls of walk_tree entered so far, and the steps the walk has taken: one
\* per callback, one per call made by a for loop, one per return.
Entered == Len(visited) + (IF stack # <<>> /\ ~stack[Len(stack)].called THEN 1 ELSE 0)
StepsTaken == Len(visited) + (Entered - 1) + (Entered - Len(stack))
StepsLeft == 3 * Cardinality(AllPositions) - StepsTaken

\* The listing has no cycle and holds the root name, and get_directory ran.
AcyclicRun == pc # "start" /\ Acyclic /\ NameMatches # {}

\* C8: on a listing whose parent relation has no cycle, _build_tree returns a
\* tree, and the walk over it ends after finitely many steps: until it has
\* returned or died it can always take a step, and every step lowers a
\* natural number that starts at three times the number of nodes.
C8_Terminates ==
  /\ [](AcyclicRun =>
         /\ TreeReturned
         /\ StepsLeft \in Nat
         /\ (pc \in {"done", "failed"} \/ ENABLED Next))
  /\ [][AcyclicRun => StepsLeft' < StepsLeft]_vars

\* A walk that returned from a tree as deep as an acyclic listing allows.
C8_Witness ==
  /\ pc = "done"
  /\ Acyclic
  /\ \E p \in AllPositions : Len(p) = MaxFiles - 1
  /\ MaxFiles >= 2

\* ---- C9 ----
\* The recognised records listed under this id, in listing order.
ListedChildren(id) ==
  SelectSeq(files, LAMBDA f : id \in f.parents /\ ~Unrecognised(f.mime_type))

\* C9 as stated (tried on the listings without a cycle): the children of
\* every node are exactly the Folder/Document records whose parent ids include
\* the node's id, in listing order.
C9_Original ==
  (TreeReturned /\ Acyclic) =>
    \A p \in AllPositions :
      IdsOf(NodeAt(Root, p).children) = IdsOf(ListedChildren(NodeAt(Root, p).id))

\* C9 amended: the children of every Folder node (the root included) are
\* exactly the Folder/Document records whose parent ids include the node's id,
\* in listing order.
C9_FolderChildrenInOrder ==
  TreeReturned =>
    \A p \in AllPositions :
      NodeAt(Root, p).mime = Folder =>
        IdsOf(NodeAt(Root, p).children) = IdsOf(ListedChildren(NodeAt(Root, p).id))

\* A folder with two children, kept in listing order.
C9_Witness ==
  /\ TreeReturned
  /\ Acyclic
  /\ \E p \in AllPositions : Len(NodeAt(Root, p).children) >= 2

\* ---- C10 ----
\* C10: once the callback has raised on a node the walk is over: the program
\* has died with the exception, nothing can run any more, and the callback was
\* invoked on exactly the nodes up to the failing one in pre-order, once each.
C10_FailureStopsWalk ==
  error # <<>> =>
    /\ pc = "failed"
    /\ stack = <<>>
    /\ ~ENABLED Next
    /\ visited # <<>>
    /\ visited[Len(visited)] = error[1]
    /\ InPreOrder(visited)
    /\ { visited[k] : k \in DOMAIN visited } =
         { p \in AllPositions : p = error[1] \/ Before(p, error[1]) }

\* The callback raised on a node that has nodes before and after it in
\* pre-order.
C10_Witness ==
  /\ error # <<>>
  /\ Acyclic
  /\ Len(visited) >= 2
  /\ \E p \in AllPositions : Before(error[1], p)

TypeOK ==
  /\ pc \in {"start", "walk", "done", "exit", "RecursionError", "failed"}
  /\ Len(tree) <= 1
====
